---- MODULE Spec2Model ----
(***************************************************************************)
(* Real-time leaderboard subsystem of the gaming backend:                  *)
(*   - the ranking queries of routes/leaderboard.py over the scores table, *)
(*   - the score submission of routes/games.py,                            *)
(*   - the in-memory WebSocket broadcast registry of routes/ws.py.         *)
(***************************************************************************)
EXTENDS Integers, Sequences, FiniteSets, TLC

\* ------------------------------------------------------------------ bounds
\* Longest scores table explored.
MaxEvents == 3
\* Most subscriptions (handle, scope) the registry holds at a time.
MaxSubscriptions == 3

\* Rows of the games table (no endpoint of the repository inserts a game).
GamesTable == {1, 2}
\* game_id values requests are made with; 3 names no game.
GameIds == {1, 2, 3}
\* user_id values requests are made with; 0 is rejected by the handlers.
UserIds == {0, 1, 2}
\* score values submitted; -1 is rejected by post_game_score.
ScoreInputs == {-1, 0, 1}
\* WebSocket handles, and the game ids subscriptions and broadcasts name.
Sockets == {"S1", "S2", "S3"}
WsGameIds == {7, 9}
\* limit and offset values the leaderboard is requested with.
LimitInputs == {0, 2, 101}
OffsetInputs == {-1, 1}

\* Optional[...] values: None and a present value.
None == <<>>
Some(v) == <<v>>

Min(a, b) == IF a < b THEN a ELSE b

VARIABLES
    scores,     \* the scores table: rows in id order
    now,        \* CURRENT_TIMESTAMP of the database
    req,        \* the HTTP request being served, NoRequest between requests
    resp,       \* the response the handler serving req has produced
    _connections_by_game,   \* ws.py registry: game_id -> set of handles
    _all_connections,       \* ws.py registry: the global listeners
    _registry_lock,         \* TRUE while a task holds the asyncio.Lock
    pc,                 \* where the notify_leaderboard_update call is
    game_id_arg,        \* its game_id argument
    game_specific,      \* its local game_specific
    global_listeners,   \* its local global_listeners
    delivered,          \* its local delivered
    gs_todo,            \* handles the first for loop has yet to visit
    gl_todo,            \* handles the second for loop has yet to visit
    cur,                \* Some(ws) while a send_text to ws is awaited
    attempts,           \* history: send_text calls per handle in this call
    successes,          \* history: send_text calls that returned, per handle
    at_snapshot,        \* history: the registry as it was at the snapshot
    conn,               \* the leaderboard_ws task of each handle
    mid_send_close,     \* history: handles whose peer closed during a send
    call_log            \* history: the latest registry calls made directly

rankVars == <<scores, now, req, resp>>
registryVars == <<_connections_by_game, _all_connections, _registry_lock>>
notifyVars == <<pc, game_id_arg, game_specific, global_listeners, delivered,
                gs_todo, gl_todo, cur, attempts, successes, at_snapshot>>
wsVars == <<conn, mid_send_close>>
regVars == <<registryVars, notifyVars, wsVars, call_log>>

\* ------------------------------------------------------------ scores table
\* CREATE TABLE scores (id AUTOINCREMENT, game_id, user_id, score,
\*                      created_at DEFAULT CURRENT_TIMESTAMP)
ScoreRow(id, game_id, user_id, score, created_at) ==
    [id |-> id, game_id |-> game_id, user_id |-> user_id,
     score |-> score, created_at |-> created_at]

Rows == {scores[i] : i \in 1..Len(scores)}

\* Variant: existence looked up in the scores table instead of the games table.
_game_exists_in_scores(game_id) == \E s \in Rows : s.game_id = game_id

\* SELECT 1 FROM games WHERE id = ? LIMIT 1
_game_exists(game_id) == game_id \in GamesTable

\* ------------------------------------------------------------ leaderboard
_validate_pagination(limit, offset) ==
    LET l1 == IF limit < 1 THEN 10 ELSE limit
        l2 == IF l1 > 100 THEN 100 ELSE l1
        o1 == IF offset < 0 THEN 0 ELSE offset
    IN  <<l2, o1>>

\* Variant: among equal scores the latest row wins.
Beats_latest(s2, s) ==
    /\ s2.game_id = s.game_id
    /\ s2.user_id = s.user_id
    /\ \/ s2.score > s.score
       \/ (s2.score = s.score /\ s2.created_at > s.created_at)

\* The condition of the NOT EXISTS subquery: s2 beats s for the same
\* (game, user).
Beats(s2, s) ==
    /\ s2.game_id = s.game_id
    /\ s2.user_id = s.user_id
    /\ \/ s2.score > s.score
       \/ (s2.score = s.score /\ s2.created_at < s.created_at)

\* FROM scores s WHERE s.game_id = ? AND NOT EXISTS (...): the rows that no
\* other row of the same user and game beats.
BestRows(game_id) ==
    LET R == Rows
    IN  {s \in R : s.game_id = game_id /\ ~ \E s2 \in R : Beats(s2, s)}

\* Variant: ORDER BY best_score DESC, best_at DESC, user_id ASC (the column
\* order of idx_scores_game_score).
OrderBefore_at_desc(a, b) ==
    \/ a.score > b.score
    \/ a.score = b.score /\ a.created_at > b.created_at
    \/ a.score = b.score /\ a.created_at = b.created_at /\ a.user_id < b.user_id

\* ORDER BY best_score DESC, best_at ASC, user_id ASC.
OrderBefore(a, b) ==
    \/ a.score > b.score
    \/ a.score = b.score /\ a.created_at < b.created_at
    \/ a.score = b.score /\ a.created_at = b.created_at /\ a.user_id < b.user_id

OrderTied(a, b) ==
    a.score = b.score /\ a.created_at = b.created_at /\ a.user_id = b.user_id

\* The rows of S in ORDER BY order. Rows tied on all three keys come in an
\* order SQLite leaves open; they project to the same entry, so the table
\* order is taken for them.
RECURSIVE Ordered(_)
Ordered(S) ==
    IF S = {} THEN <<>>
    ELSE LET first == CHOOSE a \in S :
                        \A b \in S \ {a} :
                            OrderBefore(a, b) \/ (OrderTied(a, b) /\ a.id < b.id)
         IN  <<first>> \o Ordered(S \ {first})

\* SELECT s.user_id, s.score AS best_score, s.created_at AS best_at
LeaderboardEntry(s) ==
    [user_id |-> s.user_id, best_score |-> s.score, best_at |-> s.created_at]

\* The whole result of the best-score query, before LIMIT and OFFSET.
FullOrdering(game_id) ==
    LET ord == Ordered(BestRows(game_id))
    IN  [i \in 1..Len(ord) |-> LeaderboardEntry(ord[i])]

\* LIMIT ? OFFSET ?
LimitOffset(seq, limit, offset) ==
    SubSeq(seq, offset + 1, Min(offset + limit, Len(seq)))

\* SELECT COUNT(DISTINCT user_id) FROM scores WHERE game_id = ?
TotalUsers(game_id) ==
    Cardinality({s.user_id : s \in {r \in Rows : r.game_id = game_id}})

get_top_leaderboard(game_id, limit, offset) ==
    LET p == _validate_pagination(limit, offset)
    IN  IF ~_game_exists(game_id)
        THEN [op |-> "top", status |-> 404, game_id |-> game_id]
        ELSE [op |-> "top", status |-> 200, game_id |-> game_id,
              items |-> LimitOffset(FullOrdering(game_id), p[1], p[2]),
              total_users |-> TotalUsers(game_id),
              limit |-> p[1], offset |-> p[2]]

\* The rows the first query of get_user_leaderboard_entry selects from
\* (LIMIT 1 without ORDER BY returns any one of them).
UserBestRows(game_id, user_id) ==
    {s \in BestRows(game_id) : s.user_id = user_id}

\* WITH bests AS (...) SELECT COUNT(1) FROM bests b
\* WHERE (b.score > ?) OR (b.score = ? AND b.created_at < ?)
Higher(game_id, best_score, best_at) ==
    Cardinality({b \in BestRows(game_id) :
                    \/ b.score > best_score
                    \/ (b.score = best_score /\ b.created_at < best_at)})

\* best_row is the row fetchone() returned, or None.
get_user_leaderboard_entry(user_id, game_id, best_row) ==
    IF user_id < 1
    THEN [op |-> "user", status |-> 400, game_id |-> game_id, user_id |-> user_id]
    ELSE IF ~_game_exists(game_id)
    THEN [op |-> "user", status |-> 404, game_id |-> game_id, user_id |-> user_id]
    ELSE IF best_row = None
    THEN [op |-> "user", status |-> 200, game_id |-> game_id, user_id |-> user_id,
          best_score |-> None, best_at |-> None, rank |-> None]
    ELSE LET best_score == best_row[1].score
             best_at == best_row[1].created_at
             higher == Higher(game_id, best_score, best_at)
         IN  [op |-> "user", status |-> 200, game_id |-> game_id,
              user_id |-> user_id, best_score |-> Some(best_score),
              best_at |-> Some(best_at), rank |-> Some(higher + 1)]

\* -------------------------------------------------------- score submission
ScoreItem(s) ==
    [id |-> s.id, user_id |-> s.user_id, score |-> s.score,
     created_at |-> s.created_at]

\* INSERT INTO scores (game_id, user_id, score): the table after the insert.
_insert_score(table, game_id, user_id, score, at) ==
    Append(table, ScoreRow(Len(table) + 1, game_id, user_id, score, at))

\* ORDER BY score DESC, created_at DESC, id DESC LIMIT 1
TopScoreRow(table, game_id) ==
    LET S == {table[i] : i \in 1..Len(table)}
        G == {s \in S : s.game_id = game_id}
    IN  IF G = {} THEN None
        ELSE Some(ScoreItem(CHOOSE a \in G : \A b \in G \ {a} :
                \/ a.score > b.score
                \/ a.score = b.score /\ a.created_at > b.created_at
                \/ a.score = b.score /\ a.created_at = b.created_at /\ a.id > b.id))

_score_stats(table, game_id) ==
    [total_scores |->
        Cardinality({i \in 1..Len(table) : table[i].game_id = game_id}),
     top_score |-> TopScoreRow(table, game_id)]

\* ---------------------------------------------------------------- actions
\* A handle no client has connected with yet.
NewConnection ==
    [pc |-> "new", raw_game_id |-> None, game_filter |-> None,
     registered |-> <<>>, unregistered |-> <<>>, exit |-> "none",
     peer |-> "open"]

NoRequest == [op |-> "none"]
NoResponse == [op |-> "none", status |-> 0]

Init ==
    /\ scores = <<>>
    /\ now = 1
    /\ req = NoRequest
    /\ resp = NoResponse
    /\ _connections_by_game = << >>
    /\ _all_connections = {}
    /\ _registry_lock = FALSE
    /\ pc = "idle"
    /\ game_id_arg = None
    /\ game_specific = {}
    /\ global_listeners = {}
    /\ delivered = {}
    /\ gs_todo = {}
    /\ gl_todo = {}
    /\ cur = None
    /\ attempts = [ws \in Sockets |-> 0]
    /\ successes = [ws \in Sockets |-> 0]
    /\ at_snapshot = [bucket |-> {}, globals |-> {}]
    /\ conn = [ws \in Sockets |-> NewConnection]
    /\ mid_send_close = [ws \in Sockets |-> "no"]
    /\ call_log = <<>>

\* The database clock (one-second resolution) moves on. Timestamps are only
\* compared with each other, so the clock is let run at most one second ahead
\* of the newest row, and only while a further row can be inserted.
Tick ==
    /\ req = NoRequest
    /\ 0 < Len(scores) /\ Len(scores) < MaxEvents
    /\ scores[Len(scores)].created_at = now
    /\ now' = now + 1
    /\ UNCHANGED <<scores, req, resp>>
    /\ UNCHANGED regVars

\* POST /games/{game_id}/score
post_game_score(game_id, user_id, score) ==
    /\ scores' =
          IF user_id < 1 \/ score < 0 \/ ~_game_exists(game_id)
          THEN scores
          ELSE _insert_score(scores, game_id, user_id, score, now)
    /\ resp' =
          IF user_id < 1 \/ score < 0
          THEN [op |-> "post", status |-> 400, game_id |-> game_id]
          ELSE IF ~_game_exists(game_id)
          THEN [op |-> "post", status |-> 404, game_id |-> game_id]
          ELSE [op |-> "post", status |-> 200, game_id |-> game_id,
                inserted |-> ScoreItem(scores'[Len(scores')]),
                stats |-> _score_stats(scores', game_id)]

PostGameScore ==
    \E game_id \in GameIds, user_id \in UserIds, score \in ScoreInputs :
        /\ req = NoRequest
        /\ Len(scores) < MaxEvents
        /\ req' = [op |-> "post", game_id |-> game_id, user_id |-> user_id,
                   score |-> score]
        /\ post_game_score(game_id, user_id, score)
        /\ UNCHANGED now
        /\ UNCHANGED regVars

\* GET /leaderboard/top
GetTopLeaderboard ==
    \E game_id \in GameIds, limit \in LimitInputs, offset \in OffsetInputs :
        /\ req = NoRequest
        /\ req' = [op |-> "top", game_id |-> game_id, limit |-> limit,
                   offset |-> offset]
        /\ resp' = get_top_leaderboard(game_id, limit, offset)
        /\ UNCHANGED <<scores, now>>
        /\ UNCHANGED regVars

\* GET /leaderboard/user/{user_id}
GetUserLeaderboardEntry ==
    /\ req = NoRequest
    /\ \E game_id \in GameIds, user_id \in UserIds :
        \E best_row \in LET best == UserBestRows(game_id, user_id)
                        IN  IF best = {} THEN {None}
                            ELSE {Some(s) : s \in best} :
            /\ req' = [op |-> "user", game_id |-> game_id, user_id |-> user_id]
            /\ resp' = get_user_leaderboard_entry(user_id, game_id, best_row)
            /\ UNCHANGED <<scores, now>>
            /\ UNCHANGED regVars

\* The handler returns: the response goes to the client and the next request
\* can be served.
Respond ==
    /\ req # NoRequest
    /\ req' = NoRequest
    /\ resp' = NoResponse
    /\ UNCHANGED <<scores, now>>
    /\ UNCHANGED regVars

NextRank ==
    \/ Tick
    \/ PostGameScore
    \/ GetTopLeaderboard
    \/ GetUserLeaderboardEntry
    \/ Respond

vars == <<rankVars, regVars>>

SpecRank == Init /\ [][NextRank]_vars


\* ------------------------------------------------------ broadcast registry
\* dict.get(game_id, set())
BucketOf(d, game_id) == IF game_id \in DOMAIN d THEN d[game_id] ELSE {}

\* _connections_by_game.setdefault(game_id, set()).add(ws)
DictAdd(d, game_id, ws) ==
    [k \in DOMAIN d \cup {game_id} |-> IF k = game_id THEN BucketOf(d, k) \cup {ws} ELSE d[k]]

\* Variant: the emptied bucket is left in the dict.
DictDiscard_keep_empty(d, game_id, ws) ==
    IF game_id \notin DOMAIN d THEN d
    ELSE [d EXCEPT ![game_id] = @ \ {ws}]

\* Variant: ws is discarded from a copy of the bucket.
DictDiscard_on_copy(d, game_id, ws) ==
    IF game_id \notin DOMAIN d THEN d
    ELSE IF d[game_id] \ {ws} = {}
    THEN [k \in DOMAIN d \ {game_id} |-> d[k]]
    ELSE d

\* bucket.discard(ws); if not bucket: _connections_by_game.pop(game_id, None)
DictDiscard(d, game_id, ws) ==
    IF game_id \notin DOMAIN d THEN d
    ELSE IF d[game_id] \ {ws} = {}
    THEN [k \in DOMAIN d \ {game_id} |-> d[k]]
    ELSE [d EXCEPT ![game_id] = @ \ {ws}]

\* async with _registry_lock: the lock is taken when it is free and given
\* back at the end of the block; no block of ws.py awaits while it holds the
\* lock, so a block is one step.
LockFree == ~_registry_lock

\* Variant: the else is missing, every handle is added to _all_connections.
_register_connection_no_else(ws, game_id) ==
    /\ LockFree
    /\ _all_connections' = _all_connections \cup {ws}
    /\ IF game_id = None
       THEN UNCHANGED _connections_by_game
       ELSE _connections_by_game' = DictAdd(_connections_by_game, game_id[1], ws)
    /\ _registry_lock' = FALSE

\* _register_connection(ws, game_id); game_id is None or Some(g).
_register_connection(ws, game_id) ==
    /\ LockFree
    /\ IF game_id = None
       THEN /\ _all_connections' = _all_connections \cup {ws}
            /\ UNCHANGED _connections_by_game
       ELSE /\ _connections_by_game' = DictAdd(_connections_by_game, game_id[1], ws)
            /\ UNCHANGED _all_connections
    /\ _registry_lock' = FALSE

\* _unregister_connection(ws, game_id)
_unregister_connection(ws, game_id) ==
    /\ LockFree
    /\ IF game_id = None
       THEN /\ _all_connections' = _all_connections \ {ws}
            /\ UNCHANGED _connections_by_game
       ELSE /\ _connections_by_game' = DictDiscard(_connections_by_game, game_id[1], ws)
            /\ UNCHANGED _all_connections
    /\ _registry_lock' = FALSE

Scopes == {None} \cup {Some(g) : g \in WsGameIds}

\* The subscriptions the registry holds.
Subscriptions ==
    {<<ws, None>> : ws \in _all_connections}
    \cup UNION {{<<ws, Some(g)>> : ws \in _connections_by_game[g]} :
                    g \in DOMAIN _connections_by_game}

\* The task running notify_leaderboard_update is suspended (it awaits a send)
\* or not in the call: only then does the event loop run another task.
NotifySuspended == pc \in {"idle", "game_send", "global_send"}

Register ==
    \E ws \in Sockets, game_id \in Scopes :
        /\ NotifySuspended
        /\ Cardinality(Subscriptions \cup {<<ws, game_id>>}) <= MaxSubscriptions
        /\ _register_connection(ws, game_id)
        /\ UNCHANGED <<rankVars, notifyVars, wsVars, call_log>>

Unregister ==
    \E ws \in Sockets, game_id \in Scopes :
        /\ NotifySuspended
        /\ _unregister_connection(ws, game_id)
        /\ UNCHANGED <<rankVars, notifyVars, wsVars, call_log>>

\* Variant: the bucket is read with _connections_by_game[game_id].
UnregisterRaises_subscript(d, game_id, ws) ==
    game_id # None /\ game_id[1] \notin DOMAIN d

\* Whether _unregister_connection raises: set.discard, dict.get and
\* dict.pop(game_id, None) accept an absent member or key.
UnregisterRaises(d, game_id, ws) == FALSE

\* The registry as one value, and the set of it a call with game_id addresses.
Registry == [by_game |-> _connections_by_game, all |-> _all_connections]
AddressedSet(reg, game_id) ==
    IF game_id = None THEN reg.all ELSE BucketOf(reg.by_game, game_id[1])

\* call_log keeps the two latest calls, each with the registry it found.
CallRecord(op, ws, game_id, raised) ==
    [op |-> op, ws |-> ws, game_id |-> game_id, raised |-> raised,
     before |-> Registry]
Latest(log) == IF Len(log) > 2 THEN Tail(log) ELSE log

\* _register_connection and _unregister_connection called directly, one call
\* after the other, with any handle and any game_id.
RegisterCall ==
    \E ws \in Sockets, game_id \in Scopes :
        /\ Cardinality(Subscriptions \cup {<<ws, game_id>>}) <= MaxSubscriptions
        /\ _register_connection(ws, game_id)
        /\ call_log' = Latest(Append(call_log,
                                     CallRecord("register", ws, game_id, FALSE)))
        /\ UNCHANGED <<rankVars, notifyVars, wsVars>>

UnregisterCall ==
    \E ws \in Sockets, game_id \in Scopes :
        /\ _unregister_connection(ws, game_id)
        /\ call_log' = Latest(Append(call_log,
                CallRecord("unregister", ws, game_id,
                           UnregisterRaises(_connections_by_game, game_id, ws))))
        /\ UNCHANGED <<rankVars, notifyVars, wsVars>>

NextCalls ==
    \/ RegisterCall
    \/ UnregisterCall

SpecCalls == Init /\ [][NextCalls]_vars

\* Variant: lets an exception of send_text escape.
_safe_send_unguarded(ok) == [ret |-> TRUE, raised |-> ~ok]

\* _safe_send: ok tells whether ws.send_text(data) returned (TRUE) or raised
\* (FALSE); the result is the value returned and whether an exception leaves
\* _safe_send.
_safe_send(ok) == [ret |-> ok, raised |-> FALSE]

\* Variant: the snapshot takes the handles of every bucket.
SnapshotAllBuckets(game_id) ==
    UNION {_connections_by_game[g] : g \in DOMAIN _connections_by_game}

\* game_specific = set(_connections_by_game.get(game_id, set()))
SnapshotGameSpecific(game_id) == BucketOf(_connections_by_game, game_id)

\* Variant: get replaced by setdefault, which stores the empty set it returns.
DictAfterSetdefault(d, game_id) ==
    [k \in DOMAIN d \cup {game_id} |-> BucketOf(d, k)]

\* _connections_by_game.get(game_id, set()) reads the dict and stores nothing.
DictAfterGet(d, game_id) == d

\* Variant: the two for loops are inside the async with block.
LockHeldAtSend_inside_block == TRUE

\* Whether _registry_lock is held when the first send is awaited: the async
\* with block ends after the two snapshot lines, before the loops.
LockHeldAtSend == FALSE

\* Variant: the second loop skips nothing.
AlreadyDelivered_never(ws, done) == FALSE

\* if ws in delivered: continue
AlreadyDelivered(ws, done) == ws \in done

\* Variant: the loop over global_listeners is written first.
AfterGameLoop_globals_first(todo, globals) ==
    IF globals # {} THEN "global_loop"
    ELSE IF todo # {} THEN "game_loop" ELSE "done"

\* Where the call goes on once the first loop has todo left to visit.
AfterGameLoop(todo, globals) ==
    IF todo # {} THEN "game_loop"
    ELSE IF globals # {} THEN "global_loop" ELSE "done"

AfterGlobalLoop(todo) == IF todo # {} THEN "global_loop" ELSE "done"

\* notify_leaderboard_update(game_id, update) up to its first await of a send:
\* the message is built, the recipients are collected under the lock.
NotifyBegin ==
    \E game_id \in WsGameIds :
        /\ pc = "idle"
        /\ LockFree
        /\ game_id_arg' = Some(game_id)
        /\ game_specific' = SnapshotGameSpecific(game_id)
        /\ global_listeners' = _all_connections
        /\ _connections_by_game' = DictAfterGet(_connections_by_game, game_id)
        /\ _registry_lock' = LockHeldAtSend
        /\ delivered' = {}
        /\ gs_todo' = game_specific'
        /\ gl_todo' = global_listeners'
        /\ cur' = None
        /\ attempts' = [ws \in Sockets |-> 0]
        /\ successes' = [ws \in Sockets |-> 0]
        /\ at_snapshot' = [bucket |-> BucketOf(_connections_by_game, game_id),
                           globals |-> _all_connections]
        /\ pc' = AfterGameLoop(gs_todo', gl_todo')
        /\ mid_send_close' = [ws \in Sockets |->
                                 IF mid_send_close[ws] = "during_send"
                                 THEN "before_call" ELSE mid_send_close[ws]]
        /\ UNCHANGED <<rankVars, _all_connections, conn, call_log>>

\* for ws in list(game_specific): await _safe_send(ws, payload_str) begins.
GameSendStart ==
    \E ws \in gs_todo :
        /\ pc = "game_loop"
        /\ gs_todo' = gs_todo \ {ws}
        /\ cur' = Some(ws)
        /\ attempts' = [attempts EXCEPT ![ws] = @ + 1]
        /\ pc' = "game_send"
        /\ UNCHANGED <<rankVars, registryVars, wsVars, call_log, game_id_arg, game_specific,
                       global_listeners, delivered, gl_todo, successes,
                       at_snapshot>>

\* ... and ends: if it returned True, delivered.add(ws).
GameSendDone ==
    \E ok \in BOOLEAN :
        LET r == _safe_send(ok)
            ws == cur[1]
        IN  /\ pc = "game_send"
            /\ cur' = None
            /\ successes' = [successes EXCEPT ![ws] = @ + (IF ok THEN 1 ELSE 0)]
            /\ delivered' = IF ~r.raised /\ r.ret THEN delivered \cup {ws} ELSE delivered
            /\ pc' = IF r.raised THEN "raised"
                     ELSE AfterGameLoop(gs_todo, gl_todo)
            /\ UNCHANGED <<rankVars, registryVars, wsVars, call_log, game_id_arg, game_specific,
                           global_listeners, gs_todo, gl_todo, attempts,
                           at_snapshot>>

\* for ws in list(global_listeners): if ws in delivered: continue
GlobalSkip ==
    \E ws \in gl_todo :
        /\ pc = "global_loop"
        /\ AlreadyDelivered(ws, delivered)
        /\ gl_todo' = gl_todo \ {ws}
        /\ pc' = AfterGlobalLoop(gl_todo')
        /\ UNCHANGED <<rankVars, registryVars, wsVars, call_log, game_id_arg, game_specific,
                       global_listeners, delivered, gs_todo, cur, attempts,
                       successes, at_snapshot>>

\* ... else await _safe_send(ws, payload_str) begins.
GlobalSendStart ==
    \E ws \in gl_todo :
        /\ pc = "global_loop"
        /\ ~AlreadyDelivered(ws, delivered)
        /\ gl_todo' = gl_todo \ {ws}
        /\ cur' = Some(ws)
        /\ attempts' = [attempts EXCEPT ![ws] = @ + 1]
        /\ pc' = "global_send"
        /\ UNCHANGED <<rankVars, registryVars, wsVars, call_log, game_id_arg, game_specific,
                       global_listeners, delivered, gs_todo, successes,
                       at_snapshot>>

\* ... and ends; its result is dropped.
GlobalSendDone ==
    \E ok \in BOOLEAN :
        LET r == _safe_send(ok)
            ws == cur[1]
        IN  /\ pc = "global_send"
            /\ cur' = None
            /\ successes' = [successes EXCEPT ![ws] = @ + (IF ok THEN 1 ELSE 0)]
            /\ pc' = IF r.raised THEN "raised" ELSE AfterGlobalLoop(gl_todo)
            /\ UNCHANGED <<rankVars, registryVars, wsVars, call_log, game_id_arg, game_specific,
                           global_listeners, delivered, gs_todo, gl_todo,
                           attempts, at_snapshot>>

\* The call returns (or its exception leaves it): its locals are gone.
NotifyReturn ==
    /\ pc \in {"done", "raised"}
    /\ pc' = "idle"
    /\ game_id_arg' = None
    /\ game_specific' = {}
    /\ global_listeners' = {}
    /\ delivered' = {}
    /\ gs_todo' = {}
    /\ gl_todo' = {}
    /\ cur' = None
    /\ attempts' = [ws \in Sockets |-> 0]
    /\ successes' = [ws \in Sockets |-> 0]
    /\ at_snapshot' = [bucket |-> {}, globals |-> {}]
    /\ UNCHANGED <<rankVars, registryVars, wsVars, call_log>>

NextReg ==
    \/ Register
    \/ Unregister
    \/ NotifyBegin
    \/ GameSendStart
    \/ GameSendDone
    \/ GlobalSkip
    \/ GlobalSendStart
    \/ GlobalSendDone
    \/ NotifyReturn

SpecReg == Init /\ [][NextReg]_vars

\* -------------------------------------------------- leaderboard_ws tasks
\* Text is a sequence of characters. str.strip() and str.lower(), for the
\* blank and the letters the inputs below are made of.
Whitespace == {" "}
LowerChar(c) ==
    CASE c = "P" -> "p" [] c = "I" -> "i" [] c = "N" -> "n" [] c = "G" -> "g"
      [] OTHER -> c
Lower(text) == [i \in DOMAIN text |-> LowerChar(text[i])]
RECURSIVE LStrip(_)
LStrip(text) ==
    IF text # <<>> /\ Head(text) \in Whitespace THEN LStrip(Tail(text)) ELSE text
RECURSIVE RStrip(_)
RStrip(text) ==
    IF text # <<>> /\ text[Len(text)] \in Whitespace
    THEN RStrip(SubSeq(text, 1, Len(text) - 1))
    ELSE text
Strip(text) == RStrip(LStrip(text))

\* data.strip().lower() == "ping"
IsPing(data) == Lower(Strip(data)) = <<"p", "i", "n", "g">>

\* int(raw_game_id): blanks around are dropped, a sign may lead, the rest is
\* decimal digits; anything else is a ValueError (ok = FALSE).
Digits == {"0", "1", "2", "3", "4", "5", "6", "7", "8", "9"}
DigitValue(c) ==
    CASE c = "0" -> 0 [] c = "1" -> 1 [] c = "2" -> 2 [] c = "3" -> 3
      [] c = "4" -> 4 [] c = "5" -> 5 [] c = "6" -> 6 [] c = "7" -> 7
      [] c = "8" -> 8 [] c = "9" -> 9
RECURSIVE DigitsValue(_)
DigitsValue(text) ==
    IF text = <<>> THEN 0
    ELSE 10 * DigitsValue(SubSeq(text, 1, Len(text) - 1))
         + DigitValue(text[Len(text)])
ParseInt(text) ==
    LET t == Strip(text)
        signed == t # <<>> /\ Head(t) \in {"-", "+"}
        body == IF signed THEN Tail(t) ELSE t
    IN  IF body = <<>> \/ \E i \in DOMAIN body : body[i] \notin Digits
        THEN [ok |-> FALSE, value |-> 0]
        ELSE [ok |-> TRUE,
              value |-> IF Head(t) = "-" THEN -DigitsValue(body)
                        ELSE DigitsValue(body)]

\* Variant: a malformed game_id subscribes to game 0.
GameFilter_zero(raw_game_id) ==
    IF raw_game_id = None THEN None
    ELSE IF ParseInt(raw_game_id[1]).ok
    THEN Some(ParseInt(raw_game_id[1]).value)
    ELSE Some(0)

\* game_filter = int(raw_game_id) if raw_game_id is not None else None,
\* and None on ValueError.
GameFilter(raw_game_id) ==
    IF raw_game_id = None THEN None
    ELSE IF ParseInt(raw_game_id[1]).ok
    THEN Some(ParseInt(raw_game_id[1]).value)
    ELSE None

\* The game_id query values clients connect with: none, "7", " 9" and "7x";
\* and the texts they send.
RawGameIds == {None, Some(<<"7">>), Some(<<" ", "9">>), Some(<<"7", "x">>)}
Messages == {<<"p", "i", "n", "g">>, <<" ", "P", "i", "n", "g", " ">>, <<"h", "i">>}

\* Variant: the unregister call is in the except WebSocketDisconnect branch.
UnregisterOnExit_disconnect_only(exit) == exit = "disconnect"

\* try: ... finally: await _unregister_connection(websocket, game_filter)
\* runs however the loop is left.
UnregisterOnExit(exit) == TRUE

\* The handles of the connections clients open.
WsHandles == {"S1", "S2"}

\* A client opens a connection with the query value raw. Up to its first
\* receive_text() the handler touches nothing but its own handle, so this is
\* one step: accept() returns, the filter is read, the handle is registered
\* and the handler awaits receive_text(); or accept() raises and the handler
\* ends before it has read the query.
WsConnect ==
    \E ws \in WsHandles, raw \in RawGameIds, ok \in BOOLEAN :
        LET game_filter == GameFilter(raw)
        IN  /\ NotifySuspended
            /\ conn[ws].pc = "new"
            /\ IF ok
               THEN /\ _register_connection(ws, game_filter)
                    /\ conn' = [conn EXCEPT ![ws].pc = "receive",
                                            ![ws].raw_game_id = raw,
                                            ![ws].game_filter = game_filter,
                                            ![ws].registered = Append(@, game_filter)]
               ELSE /\ conn' = [conn EXCEPT ![ws].pc = "aborted",
                                            ![ws].peer = "closed"]
                    /\ UNCHANGED registryVars
            /\ UNCHANGED <<rankVars, notifyVars, mid_send_close, call_log>>

\* The peer closes the connection; the handler learns of it when its
\* receive_text() or send_text() is resumed.
WsPeerClose ==
    \E ws \in WsHandles :
        /\ conn[ws].pc \in {"receive", "pong"}
        /\ conn[ws].peer = "open"
        /\ conn' = [conn EXCEPT ![ws].peer = "closed"]
        /\ mid_send_close' = IF cur = Some(ws)
                             THEN [mid_send_close EXCEPT ![ws] = "during_send"]
                             ELSE mid_send_close
        /\ UNCHANGED <<rankVars, registryVars, notifyVars, call_log>>

\* Variant: except WebSocketDisconnect goes on with the loop.
LeavesLoop_continue_on_disconnect(exit) == exit # "disconnect"

\* Both except branches of the loop end in break, and an exception of
\* send_text("pong") is caught by them too: every exception leaves the loop.
LeavesLoop(exit) == TRUE

\* The loop is left with exit: the finally block runs. The lock is free
\* whenever a task is resumed, so the block does not suspend.
WsExit(ws, exit) ==
    /\ IF ~LeavesLoop(exit)
       THEN /\ conn' = [conn EXCEPT ![ws].pc = "receive"]
            /\ UNCHANGED registryVars
       ELSE IF UnregisterOnExit(exit)
       THEN /\ _unregister_connection(ws, conn[ws].game_filter)
            /\ conn' = [conn EXCEPT ![ws].pc = "closed",
                                    ![ws].exit = exit,
                                    ![ws].peer = "closed",
                                    ![ws].unregistered = Append(@, conn[ws].game_filter)]
       ELSE /\ conn' = [conn EXCEPT ![ws].pc = "closed",
                                    ![ws].exit = exit,
                                    ![ws].peer = "closed"]
            /\ UNCHANGED registryVars
    /\ UNCHANGED <<rankVars, notifyVars, mid_send_close, call_log>>

\* receive_text() returns data: "ping" is answered, anything else ignored.
WsReceiveText ==
    \E ws \in WsHandles, data \in Messages :
        /\ NotifySuspended
        /\ conn[ws].pc = "receive"
        /\ conn[ws].peer = "open"
        /\ conn' = [conn EXCEPT ![ws].pc = IF IsPing(data) THEN "pong" ELSE "receive"]
        /\ UNCHANGED <<rankVars, registryVars, notifyVars, mid_send_close, call_log>>

\* send_text("pong") returns, or raises and the loop is left.
WsPongDone ==
    \E ws \in WsHandles, ok \in BOOLEAN :
        /\ NotifySuspended
        /\ conn[ws].pc = "pong"
        /\ IF ok
           THEN /\ conn' = [conn EXCEPT ![ws].pc = "receive"]
                /\ UNCHANGED <<rankVars, registryVars, notifyVars,
                               mid_send_close, call_log>>
           ELSE WsExit(ws, "pong_fail")

\* receive_text() raises WebSocketDisconnect.
WsReceiveDisconnect ==
    \E ws \in WsHandles :
        /\ NotifySuspended
        /\ conn[ws].pc = "receive"
        /\ conn[ws].peer = "closed"
        /\ WsExit(ws, "disconnect")

\* receive_text() raises another exception.
WsReceiveError ==
    \E ws \in WsHandles :
        /\ NotifySuspended
        /\ conn[ws].pc = "receive"
        /\ WsExit(ws, "error")

\* The connection tasks and the broadcasts. A handle registered by
\* leaderboard_ws is in one set only, so the second loop of
\* notify_leaderboard_update never finds a handle in delivered here: its
\* continue branch (GlobalSkip) has no step in this specification.
NextWs ==
    \/ WsConnect
    \/ WsPeerClose
    \/ WsReceiveText
    \/ WsPongDone
    \/ WsReceiveDisconnect
    \/ WsReceiveError
    \/ NotifyBegin
    \/ GameSendStart
    \/ GameSendDone
    \/ GlobalSendStart
    \/ GlobalSendDone
    \/ NotifyReturn

SpecWs == Init /\ [][NextWs]_vars

\* The event loop resumes the leaderboard_ws task of ws, whose peer has
\* closed: receive_text() raises WebSocketDisconnect, or the send_text("pong")
\* it awaits ends, one way or the other.
ResumeDisconnected(ws) ==
    /\ conn[ws].pc = "receive"
    /\ WsReceiveDisconnect
    /\ conn'[ws] # conn[ws]
ResumePong(ws) ==
    /\ conn[ws].pc = "pong"
    /\ conn[ws].peer = "closed"
    /\ WsPongDone
    /\ conn'[ws] # conn[ws]

\* The task running notify_leaderboard_update runs on to its next await or to
\* its return.
NotifyRunsOn ==
    \/ GameSendStart
    \/ GlobalSendStart
    \/ NotifyReturn

\* Scheduling of the asyncio event loop: the running task runs on until it
\* awaits or ends, and a task whose awaited receive or send has an outcome is
\* resumed once the running task has suspended, however often other tasks
\* run in between.
Fairness ==
    /\ WF_vars(NotifyRunsOn)
    /\ \A ws \in WsHandles :
          /\ SF_vars(ResumeDisconnected(ws))
          /\ SF_vars(ResumePong(ws))

SpecWsFair == SpecWs /\ Fairness

\* ================================================================= claims
\* The events of a game, and of one user in it.
GameRows(g) == {s \in Rows : s.game_id = g}
UserRows(g, u) == {s \in GameRows(g) : s.user_id = u}
GameUsers(g) == {s.user_id : s \in GameRows(g)}

TopServed == req.op = "top" /\ resp.status = 200
UserServed == req.op = "user" /\ resp.status = 200

\* A page that starts at the first entry and is long enough to hold one entry
\* for every event of the game: nothing of the ordering is cut off.
FullPageServed ==
    /\ TopServed
    /\ resp.offset = 0
    /\ resp.limit >= Cardinality(GameRows(req.game_id))

ItemUsers == {resp.items[i].user_id : i \in DOMAIN resp.items}

\* C1: the full leaderboard returned by get_top_leaderboard holds every user
\* with at least one event of the game, and no user in two entries.
C1_EachUserExactlyOnce ==
    FullPageServed =>
        /\ ItemUsers = GameUsers(req.game_id)
        /\ \A i, j \in DOMAIN resp.items :
              i # j => resp.items[i].user_id # resp.items[j].user_id

\* Every user of the game has a single best row (no two events of a user share
\* the user's maximum score and its earliest created_at).
SingleBestRows(g) ==
    \A u \in GameUsers(g) : Cardinality(UserBestRows(g, u)) = 1

\* C2: the rank get_user_leaderboard_entry returns for a user is the user's
\* 1-indexed position in get_top_leaderboard(limit = total users, offset = 0).
\* Stated for the logs in which every user has a single best row, so that a
\* violation shows two different users, not the repeated entries of C1.
C2_RankIsPosition ==
    (UserServed /\ resp.rank # None /\ SingleBestRows(req.game_id)) =>
        LET page == get_top_leaderboard(req.game_id, TotalUsers(req.game_id), 0)
        IN  \A N \in DOMAIN page.items :
                page.items[N].user_id = req.user_id => resp.rank = Some(N)

\* Entry e1 sorts after entry e2: lower score, or equal score and later
\* best_at, or equal score and best_at and larger user_id.
SortsAfter(e1, e2) ==
    \/ e1.best_score < e2.best_score
    \/ e1.best_score = e2.best_score /\ e1.best_at > e2.best_at
    \/ /\ e1.best_score = e2.best_score
       /\ e1.best_at = e2.best_at
       /\ e1.user_id > e2.user_id

\* C3: in the items get_top_leaderboard returns, no entry sorts after the
\* entry that follows it (score descending, best_at ascending, user_id
\* ascending).
C3_Sorted ==
    TopServed =>
        \A i \in 1..(Len(resp.items) - 1) :
            ~SortsAfter(resp.items[i], resp.items[i + 1])

\* Two users tied on score and best_at are returned, the smaller user_id first;
\* a third event of the game is not an entry.
C3_Witness ==
    /\ TopServed
    /\ Len(resp.items) = 2
    /\ Cardinality(GameRows(req.game_id)) = 3
    /\ resp.items[1].best_score = resp.items[2].best_score
    /\ resp.items[1].best_at = resp.items[2].best_at
    /\ resp.items[1].user_id < resp.items[2].user_id

\* The maximum score of user u in game g, and the earliest created_at among
\* the events that carry it.
MaxScoreOf(g, u) ==
    CHOOSE m \in {s.score : s \in UserRows(g, u)} :
        \A s \in UserRows(g, u) : s.score <= m
EarliestMaxAt(g, u) ==
    CHOOSE t \in {s.created_at : s \in {r \in UserRows(g, u) : r.score = MaxScoreOf(g, u)}} :
        \A s \in UserRows(g, u) : s.score = MaxScoreOf(g, u) => t <= s.created_at

\* The scenario of the specification: A:10@t1, B:10@t2, A:5@t3 in game 1
\* (A = 1, B = 2, scores 1 and 0).
ExampleLog ==
    /\ Len(scores) = 3
    /\ scores[1] = ScoreRow(1, 1, 1, 1, 1)
    /\ scores[2] = ScoreRow(2, 1, 2, 1, 2)
    /\ scores[3].game_id = 1 /\ scores[3].user_id = 1 /\ scores[3].score = 0

\* C4: both endpoints report, for a user with events, the user's maximum
\* score and the earliest created_at of an event carrying it; in the scenario
\* A:10@t1, B:10@t2, A:5@t3 the order is [A(10,t1), B(10,t2)] and B has rank 2.
C4_BestIsMaxEarliest ==
    /\ TopServed =>
          \A i \in DOMAIN resp.items :
              LET e == resp.items[i]
              IN  /\ e.best_score = MaxScoreOf(req.game_id, e.user_id)
                  /\ e.best_at = EarliestMaxAt(req.game_id, e.user_id)
    /\ (UserServed /\ UserRows(req.game_id, req.user_id) # {}) =>
          /\ resp.best_score = Some(MaxScoreOf(req.game_id, req.user_id))
          /\ resp.best_at = Some(EarliestMaxAt(req.game_id, req.user_id))
    /\ (ExampleLog /\ FullPageServed /\ req.game_id = 1) =>
          resp.items = << [user_id |-> 1, best_score |-> 1, best_at |-> 1],
                          [user_id |-> 2, best_score |-> 1, best_at |-> 2] >>
    /\ (ExampleLog /\ UserServed /\ req.game_id = 1 /\ req.user_id = 2) =>
          resp.rank = Some(2)

\* The scenario has been played and B's entry requested.
C4_Witness ==
    /\ ExampleLog
    /\ UserServed /\ req.game_id = 1 /\ req.user_id = 2
    /\ resp.best_score = Some(1) /\ resp.best_at = Some(2)

\* C5: limit and offset are clamped (limit < 1 -> 10, limit > 100 -> 100,
\* offset < 0 -> 0), the items are positions offset+1 .. offset+limit of the
\* full ordering, and total_users is the number of distinct users with an
\* event, which is also the length of the full ordering.
C5_Pagination ==
    TopServed =>
        LET l == IF req.limit < 1 THEN 10
                 ELSE IF req.limit > 100 THEN 100 ELSE req.limit
            o == IF req.offset < 0 THEN 0 ELSE req.offset
            full == FullOrdering(req.game_id)
            last == Min(o + l, Len(full))
        IN  /\ resp.limit = l
            /\ resp.offset = o
            /\ Len(resp.items) = (IF last > o THEN last - o ELSE 0)
            /\ \A i \in DOMAIN resp.items : resp.items[i] = full[o + i]
            /\ resp.total_users = Cardinality(GameUsers(req.game_id))
            /\ resp.total_users = Len(full)

RankingServed == req.op \in {"top", "user"}

\* C6 as stated: on an existing game without events the page is empty with
\* total_users 0 and every user's entry is all None; the ranking endpoints
\* answer 404 exactly when the game does not exist.
C6_NotFoundIffNoGame ==
    /\ (req.op = "top" /\ req.game_id \in GamesTable /\ GameRows(req.game_id) = {}) =>
          /\ resp.status = 200
          /\ resp.items = <<>>
          /\ resp.total_users = 0
    /\ (req.op = "user" /\ req.game_id \in GamesTable /\ GameRows(req.game_id) = {}) =>
          /\ resp.status = 200
          /\ resp.best_score = None /\ resp.best_at = None /\ resp.rank = None
    /\ RankingServed => (resp.status = 404 <=> req.game_id \notin GamesTable)

\* C6 amended: the same for every user_id >= 1; a user_id < 1 is answered 400
\* by get_user_leaderboard_entry before the game is looked up.
C6_NotFoundIffNoGameForValidUser ==
    /\ (req.op = "top" /\ req.game_id \in GamesTable /\ GameRows(req.game_id) = {}) =>
          /\ resp.status = 200
          /\ resp.items = <<>>
          /\ resp.total_users = 0
    /\ (/\ req.op = "user" /\ req.user_id >= 1
        /\ req.game_id \in GamesTable /\ GameRows(req.game_id) = {}) =>
          /\ resp.status = 200
          /\ resp.best_score = None /\ resp.best_at = None /\ resp.rank = None
    /\ req.op = "top" => (resp.status = 404 <=> req.game_id \notin GamesTable)
    /\ (req.op = "user" /\ req.user_id >= 1) =>
          (resp.status = 404 <=> req.game_id \notin GamesTable)
    /\ (req.op = "user" /\ req.user_id < 1) => resp.status = 400

\* A user's entry is requested for a game that exists and has no events while
\* another game has some.
C6_Witness ==
    /\ req.op = "user" /\ req.user_id >= 1
    /\ req.game_id \in GamesTable /\ GameRows(req.game_id) = {}
    /\ Len(scores) > 0
    /\ resp.status = 200 /\ resp.rank = None

\* Handles a send was attempted to in the current notify_leaderboard_update
\* call, and the handles that were in the game's bucket or in the global set
\* when the call took its snapshot.
Attempted == {ws \in Sockets : attempts[ws] > 0}
SnapshotHandles == at_snapshot.bucket \cup at_snapshot.globals

\* C7: a notify_leaderboard_update call attempts sends only to handles that
\* were in the game's bucket or in the global set at snapshot time, and, once
\* it has returned, to every one of them.
C7_SendsToSnapshotOnly ==
    /\ Attempted \subseteq SnapshotHandles
    /\ pc = "done" => Attempted = SnapshotHandles

\* broadcast(7) with S1 scoped to 7, S2 global and S3 scoped to 9 has returned:
\* S1 and S2 were sent to, S3 was not.
C7_Witness ==
    /\ pc = "done"
    /\ game_id_arg = Some(7)
    /\ at_snapshot = [bucket |-> {"S1"}, globals |-> {"S2"}]
    /\ BucketOf(_connections_by_game, 9) = {"S3"}
    /\ attempts = [ws \in Sockets |-> IF ws = "S3" THEN 0 ELSE 1]

\* C8: within one notify_leaderboard_update call no handle is successfully
\* sent the message more than once.
C8_DeliveredAtMostOnce ==
    \A ws \in Sockets : successes[ws] <= 1

\* A call has returned that delivered to a handle present both in the game's
\* bucket and in the global set.
C8_Witness ==
    /\ pc = "done"
    /\ \E ws \in at_snapshot.bucket \cap at_snapshot.globals : successes[ws] = 1

NotifyStep ==
    \/ GameSendStart
    \/ GameSendDone
    \/ GlobalSkip
    \/ GlobalSendStart
    \/ GlobalSendDone

\* C9: whichever sends fail, no exception leaves notify_leaderboard_update,
\* the call is never stuck before it returns, and when it has returned every
\* handle of the snapshot has been sent to.
C9_FailureIsolated ==
    /\ pc # "raised"
    /\ pc \in {"game_loop", "game_send", "global_loop", "global_send"} =>
          ENABLED NotifyStep
    /\ pc = "done" => \A ws \in SnapshotHandles : attempts[ws] >= 1

\* A call has returned in which the sends to both game-scoped handles failed
\* and the send to a global handle, made after them, succeeded.
C9_Witness ==
    /\ pc = "done"
    /\ Cardinality(at_snapshot.bucket) = 2
    /\ \A ws \in at_snapshot.bucket : attempts[ws] >= 1 /\ successes[ws] = 0
    /\ \E ws \in at_snapshot.globals \ at_snapshot.bucket : successes[ws] = 1

\* C10: when post_game_score has produced its successful response, a
\* notify_leaderboard_update call for the game of the submission has been
\* issued.
C10_SubmissionBroadcasts ==
    (req.op = "post" /\ resp.status = 200) =>
        /\ pc # "idle"
        /\ game_id_arg = Some(req.game_id)

\* C14: no key of _connections_by_game maps to an empty set, in any state
\* between register, unregister and notify_leaderboard_update steps.
C14_NoEmptyBucket ==
    \A g \in DOMAIN _connections_by_game : _connections_by_game[g] # {}

\* A broadcast for game 7 found S1 alone in the bucket; S1 has since been
\* unregistered and the key 7 is gone while game 9 keeps its bucket.
C14_Witness ==
    /\ pc = "done"
    /\ game_id_arg = Some(7)
    /\ at_snapshot.bucket = {"S1"}
    /\ DOMAIN _connections_by_game = {9}

\* C17: no send is in flight while _registry_lock is held, and during a send
\* every _register_connection and _unregister_connection call can take the
\* lock and complete.
C17_NoSendUnderLock ==
    /\ cur # None => ~_registry_lock
    /\ pc \in {"game_send", "global_send"} =>
          \A ws \in Sockets, game_id \in Scopes :
              /\ ENABLED _register_connection(ws, game_id)
              /\ ENABLED _unregister_connection(ws, game_id)

\* A send to a game-scoped handle is in flight and the handle has been
\* unregistered since the snapshot.
C17_Witness ==
    /\ pc = "game_send"
    /\ cur[1] \in at_snapshot.bucket
    /\ cur[1] \notin BucketOf(_connections_by_game, game_id_arg[1])

\* C18: once the loop over global_listeners has visited a handle, no send to
\* a handle of game_specific is pending or in flight: all of them were
\* attempted before.
C18_GameScopedFirst ==
    (pc \in {"global_loop", "global_send"} \/ gl_todo # global_listeners) =>
        /\ gs_todo = {}
        /\ pc \notin {"game_loop", "game_send"}
        /\ \A ws \in game_specific : attempts[ws] >= 1

\* The first send to a global handle is in flight after two game-scoped
\* handles were sent to.
C18_Witness ==
    /\ pc = "global_send"
    /\ Cardinality(game_specific) = 2
    /\ cur[1] \notin game_specific
    /\ \A ws \in game_specific : attempts[ws] = 1
    /\ attempts[cur[1]] = 1

\* C20: a step of notify_leaderboard_update leaves the global set and every
\* bucket as they are, whatever the sends return, so a handle whose send
\* failed stays registered until an unregister call; a call that finds no
\* recipient returns at once without raising.
C20_NotifyLeavesRegistry ==
    /\ [][notifyVars' # notifyVars =>
            UNCHANGED <<_connections_by_game, _all_connections>>]_vars
    /\ [](pc # "raised")
    /\ []((pc # "idle" /\ SnapshotHandles = {}) => pc = "done")

\* A call has returned in which every send failed, to two handles, and the
\* registry is as the snapshot found it.
C20_Witness ==
    /\ pc = "done"
    /\ Cardinality(SnapshotHandles) = 2
    /\ \A ws \in SnapshotHandles : attempts[ws] >= 1 /\ successes[ws] = 0
    /\ BucketOf(_connections_by_game, game_id_arg[1]) = at_snapshot.bucket
    /\ _all_connections = at_snapshot.globals
    /\ at_snapshot.bucket # {} /\ at_snapshot.globals # {}

\* The handles that are members of some set of the registry, and the latest
\* calls of call_log.
Members(subs) == {sub[1] : sub \in subs}
BucketsOf(ws) == {sub \in Subscriptions : sub[1] = ws}
LastCall == call_log[Len(call_log)]
PrevCall == call_log[Len(call_log) - 1]
SameCall(c1, c2) ==
    c1.op = c2.op /\ c1.ws = c2.ws /\ c1.game_id = c2.game_id

\* C13 as stated: whatever _register_connection and _unregister_connection
\* calls were made, each handle is a member of at most one set of the
\* registry (the global set or one game bucket).
C13_AtMostOneBucket ==
    \A ws \in Sockets : Cardinality(BucketsOf(ws)) <= 1

\* C13 amended: as long as _register_connection is not called for a handle
\* that is a member of a set, each handle is a member of at most one set:
\* every other call keeps it so.
C13_AtMostOneBucketIfRegisteredOnce ==
    [][(/\ C13_AtMostOneBucket
        /\ \A sub \in Subscriptions' \ Subscriptions :
              sub[1] \notin Members(Subscriptions))
       => C13_AtMostOneBucket']_vars

\* Three handles, each registered once: one global, one per game.
C13_Witness ==
    /\ _all_connections = {"S2"}
    /\ DOMAIN _connections_by_game = {7, 9}
    /\ _connections_by_game[7] = {"S1"}
    /\ _connections_by_game[9] = {"S3"}

\* C15: an _unregister_connection call for a handle that is not in the set
\* it addresses raises nothing and leaves the registry as it found it; the
\* second of two equal calls in a row changes nothing.
C15_UnregisterAbsentIsNoOp ==
    /\ (/\ call_log # <<>>
        /\ LastCall.op = "unregister"
        /\ LastCall.ws \notin AddressedSet(LastCall.before, LastCall.game_id)) =>
          /\ ~LastCall.raised
          /\ Registry = LastCall.before
    /\ (/\ Len(call_log) >= 2
        /\ LastCall.op = "unregister"
        /\ SameCall(PrevCall, LastCall)) =>
          /\ ~PrevCall.raised /\ ~LastCall.raised
          /\ Registry = LastCall.before

\* S1 was unregistered from the bucket of game 7, which S2 shares, and then
\* unregistered from it again.
C15_Witness ==
    /\ Len(call_log) >= 2
    /\ LastCall.op = "unregister"
    /\ SameCall(PrevCall, LastCall)
    /\ LastCall.ws = "S1" /\ LastCall.game_id = Some(7)
    /\ PrevCall.before.by_game = (7 :> {"S1", "S2"})
    /\ _connections_by_game = (7 :> {"S2"})

\* C16: a _register_connection call for a handle that is in the addressed
\* set leaves the registry as it found it (so does the second of two equal
\* calls in a row), and after one _unregister_connection call the handle is
\* not in the addressed set.
C16_RegisterIdempotent ==
    /\ (/\ call_log # <<>>
        /\ LastCall.op = "register"
        /\ LastCall.ws \in AddressedSet(LastCall.before, LastCall.game_id)) =>
          Registry = LastCall.before
    /\ (/\ Len(call_log) >= 2
        /\ LastCall.op = "register"
        /\ SameCall(PrevCall, LastCall)) =>
          Registry = LastCall.before
    /\ (call_log # <<>> /\ LastCall.op = "unregister") =>
          LastCall.ws \notin AddressedSet(Registry, LastCall.game_id)

\* S1, a member of the bucket of game 7 with S2, was registered for game 7
\* again, and one unregister call has then removed it.
C16_Witness ==
    /\ Len(call_log) = 2
    /\ PrevCall.op = "register"
    /\ PrevCall.ws = "S1" /\ PrevCall.game_id = Some(7)
    /\ PrevCall.before.by_game = (7 :> {"S1", "S2"})
    /\ LastCall.op = "unregister"
    /\ LastCall.ws = "S1" /\ LastCall.game_id = Some(7)
    /\ LastCall.before.by_game = (7 :> {"S1", "S2"})
    /\ _connections_by_game = (7 :> {"S2"})

\* C11: a leaderboard_ws handler that registered its handle and has ended
\* made exactly one _unregister_connection call, with the game_id it
\* registered with, whichever way the read loop was left; a handler still in
\* the loop, or one that never registered, has made none.
C11_OneUnregisterOnEveryExit ==
    \A ws \in Sockets :
        LET c == conn[ws]
        IN  /\ c.pc = "closed" =>
                  /\ c.exit \in {"disconnect", "error", "pong_fail"}
                  /\ c.registered = <<c.game_filter>>
                  /\ c.unregistered = c.registered
            /\ c.pc \in {"receive", "pong"} =>
                  /\ c.registered = <<c.game_filter>>
                  /\ c.unregistered = <<>>
            /\ c.pc \in {"new", "aborted"} =>
                  /\ c.registered = <<>>
                  /\ c.unregistered = <<>>

\* One handler, subscribed to game 7, ended on a failed "pong" and another,
\* a global one, on a receive error while its peer was connected.
C11_Witness ==
    /\ conn["S1"].pc = "closed" /\ conn["S1"].exit = "pong_fail"
    /\ conn["S1"].unregistered = <<Some(7)>>
    /\ conn["S2"].pc = "closed" /\ conn["S2"].exit = "error"
    /\ conn["S2"].unregistered = <<None>>

\* Among connection tasks and broadcasts the continue branch of the second
\* loop is never taken.
NoSkipInWs == ~ENABLED GlobalSkip

\* C12: a handle whose peer closed the connection while a broadcast send to
\* it was in flight is sent nothing by the notify_leaderboard_update calls
\* that begin afterwards.
C12_ClosedMidSendNotInNextCall ==
    \A ws \in Sockets :
        mid_send_close[ws] = "before_call" => attempts[ws] = 0

\* A query value is malformed when int() rejects it.
Malformed(raw_game_id) ==
    raw_game_id # None /\ ~ParseInt(raw_game_id[1]).ok

\* C19: a connection opened with a game_id that is not an integer is served
\* like any other: its handle is registered with None, is in the global set
\* and in no bucket while the handler is in its loop, is in the snapshot of
\* every notify_leaderboard_update call that begins meanwhile and is sent to
\* by it, and is unregistered with None when the loop is left.
C19_MalformedScopeIsGlobal ==
    /\ [](\A ws \in Sockets :
            LET c == conn[ws]
            IN  Malformed(c.raw_game_id) =>
                  /\ c.pc \in {"receive", "pong", "closed"}
                  /\ c.registered = <<None>>
                  /\ c.pc \in {"receive", "pong"} =>
                        /\ ws \in _all_connections
                        /\ \A g \in DOMAIN _connections_by_game :
                              ws \notin _connections_by_game[g]
                  /\ c.pc = "closed" =>
                        /\ c.exit \in {"disconnect", "error", "pong_fail"}
                        /\ c.unregistered = <<None>>
                        /\ ws \notin _all_connections)
    /\ [](pc = "done" => \A ws \in global_listeners : attempts[ws] >= 1)
    /\ [][NotifyBegin =>
            \A ws \in Sockets :
                (Malformed(conn[ws].raw_game_id) /\ conn[ws].pc \in {"receive", "pong"})
                    => ws \in global_listeners']_vars

\* A client connected with game_id "7x", was delivered a broadcast for game
\* 9, and its handler has ended on a disconnect.
C19_Witness ==
    /\ conn["S1"].raw_game_id = Some(<<"7", "x">>)
    /\ conn["S1"].pc = "closed" /\ conn["S1"].exit = "disconnect"
    /\ pc = "done" /\ game_id_arg = Some(9)
    /\ "S1" \in global_listeners
    /\ successes["S1"] = 1

\* C21: within one notify_leaderboard_update call a send is attempted at most
\* once on a handle, also on a handle of both snapshots whose first send
\* failed.
C21_AttemptedAtMostOnce ==
    \A ws \in Sockets : attempts[ws] <= 1

\* The handles the registry holds for a broadcast of game_id: the game's
\* bucket and the global set.
RegisteredFor(game_id) ==
    BucketOf(_connections_by_game, game_id) \cup _all_connections

\* C22: whenever notify_leaderboard_update begins a send to a handle, the
\* handle is still registered for the game or globally: no send is attempted
\* to a handle that _unregister_connection calls completed since the
\* snapshot have removed.
C22_NoSendToRemovedHandle ==
    [][\A ws \in Sockets :
          (pc # "idle" /\ attempts'[ws] > attempts[ws]) =>
              ws \in RegisteredFor(game_id_arg[1])]_vars

\* C23: the rank get_user_leaderboard_entry returns for a user with an event
\* in the game is at least 1 and at most the total_users that
\* get_top_leaderboard returns for the game over the same scores table.
C23_RankWithinTotalUsers ==
    (UserServed /\ UserRows(req.game_id, req.user_id) # {}) =>
        LET page == get_top_leaderboard(req.game_id, 10, 0)
        IN  /\ resp.rank # None
            /\ 1 <= resp.rank[1]
            /\ resp.rank[1] <= page.total_users

PostServed == req.op = "post" /\ resp.status = 200

\* C24: the stats.top_score of a successful post_game_score has the user_id,
\* score and created_at of the first entry get_top_leaderboard returns over
\* the same scores table, also when several events tie on the maximum score;
\* stats.total_scores is the number of events of the game, the inserted one
\* included.
C24_TopScoreIsLeaderboardFirst ==
    PostServed =>
        LET page == get_top_leaderboard(req.game_id, 10, 0)
            top == resp.stats.top_score
        IN  /\ top # None
            /\ page.items # <<>>
            /\ top[1].user_id = page.items[1].user_id
            /\ top[1].score = page.items[1].best_score
            /\ top[1].created_at = page.items[1].best_at
            /\ resp.stats.total_scores = Cardinality(GameRows(req.game_id))

\* ws is in no set of the registry.
Absent(ws) ==
    /\ ws \notin _all_connections
    /\ \A g \in DOMAIN _connections_by_game : ws \notin _connections_by_game[g]

\* C25: under fair scheduling, a handle leaderboard_ws has registered and
\* whose connection is closed (the peer disconnected, or a receive or send
\* failed and the handler left its loop) is eventually in neither the global
\* set nor a game bucket; and _registry_lock is free again and again, so no
\* register or unregister call waits on it forever.
C25_ClosedIsEventuallyAbsent ==
    /\ \A ws \in WsHandles :
          (conn[ws].registered # <<>> /\ conn[ws].peer = "closed") ~> Absent(ws)
    /\ []<>LockFree

\* The peer of S1, subscribed to game 7, closed the connection while a
\* broadcast send to S1 was in flight; the handler has since seen the
\* disconnect and S1 is in no set, while S2 is still subscribed.
C25_Witness ==
    /\ conn["S1"].registered = <<Some(7)>>
    /\ conn["S1"].pc = "closed" /\ conn["S1"].exit = "disconnect"
    /\ mid_send_close["S1"] = "during_send"
    /\ Absent("S1")
    /\ conn["S2"].pc = "receive" /\ ~Absent("S2")

====
